---- MODULE Spec2Model ----
(***************************************************************************)
(* Gator, a resumable parallel HTTP downloader (src/src/main.rs).          *)
(*                                                                         *)
(* The model follows main(): the stat of the destination file, the HEAD    *)
(* probe, the choice between download_with_work_stealing and               *)
(* download_single_chunk, and both download functions step by step.        *)
(*                                                                         *)
(* Sizes are scaled down so that files can be modelled byte by byte:       *)
(*   u64  (64 bits)            -> WORD_BITS bits                           *)
(*   f64  (53-bit significand) -> MANT_BITS bits                           *)
(*   SEGMENT_SIZE  1 MiB       -> 2 bytes                                  *)
(*   large-file threshold 10 MiB -> 4 bytes                                *)
(* The scaling keeps what the arithmetic of the program depends on:        *)
(* SEGMENT_SIZE is a power of two that is a multiple of the largest gap    *)
(* between two adjacent floats below 2^WORD_BITS (2^20 >= 2^11 in the      *)
(* program, 2^1 >= 2^1 here), and the threshold is a multiple of           *)
(* SEGMENT_SIZE.                                                           *)
(***************************************************************************)
EXTENDS Integers, Sequences, FiniteSets, Bags, TLC

\* ---------------------------------------------------------------- bounds
NumWorkers == 2      \* workers spawned (max(16, cpus*4) in the program)
MaxSize == 7         \* largest resource served by the server, in bytes
MaxChunk == 2        \* largest body chunk handed out by response.chunk()

\* ------------------------------------------------------ program constants
SEGMENT_SIZE == 2            \* main.rs:158, scaled
LARGE_FILE_THRESHOLD == 4    \* main.rs:121, scaled
WORD_BITS == 6               \* width of u64, scaled
MANT_BITS == 5               \* significand of f64, scaled

Workers == 1..NumWorkers
None == -1                   \* Option::None for numbers
NoFile == <<-2>>             \* the destination path does not exist
OldByte == -1                \* a byte of the file found on disk at start
ZeroByte == 0                \* a byte of a hole (set_len, write past the end)

Pow2(n) == 2 ^ n
Min(a, b) == IF a < b THEN a ELSE b
Max(a, b) == IF a > b THEN a ELSE b

\* The byte of the resource at offset i: distinct per offset, never a hole.
Src(i) == i + 1

\* ------------------------------------------------------------ arithmetic
\* A u64 value: arithmetic of the release build wraps modulo 2^WORD_BITS.
U64(x) == x % Pow2(WORD_BITS)

\* floor(log2(n)) for n >= 1.
RECURSIVE Log2(_)
Log2(n) == IF n < 2 THEN 0 ELSE 1 + Log2(n \div 2)

\* `n as f64`: the nearest float, ties to the even significand.  The floats
\* met here are whole numbers, so a float is modelled by its value.
AsF64(n) ==
    IF n < Pow2(MANT_BITS) THEN n
    ELSE LET ulp == Pow2(Log2(n) - MANT_BITS + 1)
             lo  == (n \div ulp) * ulp
             rem == n - lo
         IN  IF 2 * rem < ulp THEN lo
             ELSE IF 2 * rem > ulp THEN lo + ulp
             ELSE IF (lo \div ulp) % 2 = 0 THEN lo ELSE lo + ulp

\* (x / d).ceil() as u64 for floats x, d with d a power of two: the float
\* division by a power of two is exact, the cast saturates at u64::MAX.
CeilDivAsU64(x, d) == Min((x + d - 1) \div d, Pow2(WORD_BITS) - 1)

\* num_segments of download_with_work_stealing.
NumSegments(remaining) == CeilDivAsU64(AsF64(remaining), AsF64(SEGMENT_SIZE))

\* The exact ceiling of a / b over the integers.
CeilDiv(a, b) == (a + b - 1) \div b

\* ----------------------------------------------------------------- files
IsFile(f) == f # NoFile
FileLen(f) == IF IsFile(f) THEN Len(f) ELSE 0
Fill(n, b) == [k \in 1..n |-> b]

\* write(2) of data at byte offset pos: a write past the end leaves a hole.
WriteAt(f, pos, data) ==
    [k \in 1..Max(Len(f), pos + Len(data)) |->
        IF k > pos /\ k <= pos + Len(data) THEN data[k - pos]
        ELSE IF k <= Len(f) THEN f[k]
        ELSE ZeroByte]

\* The bytes lo..hi (inclusive offsets) of the resource.
SrcBytes(lo, hi) == [k \in 1..(hi - lo + 1) |-> Src(lo + k - 1)]

\* ------------------------------------------------------------------ HTTP
\* IsSuccess that lets every status below 500 pass.
IsSuccessBelow500(status) == status >= 200 /\ status <= 499

\* StatusCode::is_success
IsSuccess(status) == status >= 200 /\ status <= 299
PARTIAL_CONTENT == 206
\* The check both download functions apply to the response of a GET.
StatusAccepted(status) == IsSuccess(status) \/ status = PARTIAL_CONTENT

\* Content-Length: absent, not a number, or the number n.
ContentLengthKinds == {"absent", "garbage", "number"}
ParseContentLength(kind, n) == IF kind = "number" THEN n ELSE None
\* Accept-Ranges: compared with "bytes".
AcceptRangesValues == {"absent", "none", "bytes"}
AcceptsRanges(h) == h = "bytes"

\* Strategy with the threshold test off by one (>= for >).
StrategyAtThreshold(cl, ranges, pos) ==
    IF cl # None /\ ranges /\ cl >= LARGE_FILE_THRESHOLD /\ pos < cl
    THEN "segmented" ELSE "single"

\* The branch main() takes after the probe.
Strategy(cl, ranges, pos) ==
    IF cl # None /\ ranges /\ cl > LARGE_FILE_THRESHOLD /\ pos < cl
    THEN "segmented" ELSE "single"

NoSegment == [start |-> 0, end |-> 0]
NoBody == [lo |-> 0, hi |-> -1]
BodyLen(b) == IF b.hi >= b.lo THEN b.hi - b.lo + 1 ELSE 0

\* --------------------------------------------------------------- state
VARIABLES
    pc,               \* where main() is
    rsize,            \* the size of the resource on the server
    file,             \* the destination file on disk
    starting_pos,     \* main: length of the file found at start
    content_length,   \* main: parsed Content-Length of the HEAD response
    accepts_ranges,   \* main: Accept-Ranges == "bytes"
    strategy,         \* which download function main() called
    total_len,        \* parameter of the download function
    remaining_bytes, num_segments, current_pos, i,   \* planner locals
    queue,            \* every Segment sent on the channel, in order
    qhead,            \* how many of them have been received
    tx_open,          \* the sender has not been dropped
    rx_lock,          \* the worker holding the Mutex of rx, or 0
    bytes_downloaded, \* the AtomicU64
    pb_len,           \* length given to the progress bar
    wpc,              \* where each worker task is
    segment,          \* the Segment each worker is downloading
    fpos,             \* position of each worker's file handle
    body,             \* what is left of each worker's response body
    chunk,            \* chunk each worker holds: [lo, hi] of the resource
    result,           \* what download_with_work_stealing returned
    gets,             \* Range headers of the GET requests sent
    s_body, s_chunk, s_append, s_pos,  \* download_single_chunk locals
    written,          \* history: sum of the lengths of the chunks written
    server,           \* how the server treats a Range header
    file0,            \* history: the destination file as found at start
    head_status,      \* history: outcome of the HEAD request
    s_status,         \* history: status of the single-stream response
    popped,           \* history: the Segments received, in order
    fetched,          \* history: bag of the Segments a GET was sent for
    seg_written       \* history: bytes each worker wrote for its Segment

vars == <<pc, rsize, server, file, starting_pos, content_length, accepts_ranges,
          strategy, total_len, remaining_bytes, num_segments, current_pos, i,
          queue, qhead, tx_open, rx_lock, bytes_downloaded, pb_len, wpc,
          segment, fpos, body, chunk, result, gets, s_body, s_chunk,
          s_append, s_pos, written, file0, head_status, s_status, popped,
          fetched, seg_written>>

mainVars == <<starting_pos, content_length, accepts_ranges, strategy, total_len>>
planVars == <<remaining_bytes, num_segments, current_pos, i, queue, tx_open>>
workerVars == <<wpc, segment, fpos, body, chunk, seg_written, qhead, rx_lock,
                written>>
singleVars == <<s_body, s_chunk, s_append, s_pos>>
histVars == <<file0, head_status, s_status, popped, fetched>>

\* A server honours Range, cuts the body of a ranged response short, or
\* ignores Range (200 and the whole resource).
ServerKinds == {"ranges", "truncates", "ignores"}
\* The servers that answer a ranged GET with 206.
PartialContentServers == {"ranges", "truncates"}

\* Destination files found at start: none, or n bytes of an earlier run.
ExistingFiles == {NoFile} \cup {Fill(n, OldByte) : n \in 0..(MaxSize + 1)}
ResourceSizes == (LARGE_FILE_THRESHOLD - 1)..MaxSize

InitLocals ==
    /\ starting_pos = 0 /\ content_length = None /\ accepts_ranges = FALSE
    /\ strategy = "none" /\ total_len = 0
    /\ remaining_bytes = 0 /\ num_segments = 0 /\ current_pos = 0 /\ i = 0
    /\ queue = <<>> /\ qhead = 0 /\ tx_open = TRUE /\ rx_lock = 0
    /\ bytes_downloaded = 0 /\ pb_len = None
    /\ wpc = [w \in Workers |-> "unborn"]
    /\ segment = [w \in Workers |-> NoSegment]
    /\ fpos = [w \in Workers |-> 0]
    /\ body = [w \in Workers |-> NoBody]
    /\ chunk = [w \in Workers |-> NoBody]
    /\ result = "none" /\ gets = {}
    /\ s_body = NoBody /\ s_chunk = NoBody /\ s_append = FALSE /\ s_pos = 0
    /\ written = 0
    /\ head_status = None /\ s_status = None
    /\ popped = <<>> /\ fetched = EmptyBag
    /\ seg_written = [w \in Workers |-> 0]

Init ==
    /\ pc = "stat"
    /\ rsize \in ResourceSizes
    /\ server \in PartialContentServers
    /\ file \in ExistingFiles
    /\ file0 = file
    /\ InitLocals

InitAnyServer ==
    /\ pc = "stat"
    /\ rsize \in ResourceSizes
    /\ server \in ServerKinds
    /\ file \in ExistingFiles
    /\ file0 = file
    /\ InitLocals

\* ------------------------------------------------------------------ main
\* main.rs:65-77
Stat ==
    /\ pc = "stat"
    /\ starting_pos' = IF IsFile(file) THEN Len(file) ELSE 0
    /\ pc' = "head"
    /\ UNCHANGED <<rsize, server, histVars, file, content_length, accepts_ranges, strategy,
                   total_len, planVars, workerVars, singleVars,
                   bytes_downloaded, pb_len, result, gets>>

\* main.rs:79-118: client.head(url).send().await?, the status check and the
\* headers.  The server reports the size of the resource or no size.
HeadStatuses == {200, 404, 500}
\* The request failed before any status line arrived.
TransportError == 0

Probe ==
    /\ pc = "head"
    /\ \/ \* transport failure
          /\ pc' = "exit_err"
          /\ head_status' = TransportError
          /\ UNCHANGED <<content_length, accepts_ranges>>
       \/ \E status \in HeadStatuses, cl \in ContentLengthKinds,
             ar \in AcceptRangesValues :
             /\ head_status' = status
             /\ IF ~IsSuccess(status)
                THEN /\ pc' = "exit_err"
                     /\ UNCHANGED <<content_length, accepts_ranges>>
                ELSE /\ content_length' = ParseContentLength(cl, rsize)
                     /\ accepts_ranges' = AcceptsRanges(ar)
                     /\ pc' = "select"
    /\ UNCHANGED <<rsize, server, file0, s_status, popped, fetched, file, starting_pos, strategy, total_len, planVars,
                   workerVars, singleVars, bytes_downloaded, pb_len, result,
                   gets>>

\* main.rs:120-144
Select ==
    /\ pc = "select"
    /\ strategy' = Strategy(content_length, accepts_ranges, starting_pos)
    /\ total_len' = IF content_length # None THEN content_length ELSE 0
    /\ pc' = IF strategy' = "segmented" THEN "ws_plan" ELSE "sc_progress"
    /\ UNCHANGED <<rsize, server, histVars, file, starting_pos, content_length, accepts_ranges,
                   planVars, workerVars, singleVars, bytes_downloaded, pb_len,
                   result, gets>>

\* --------------------------------------------- download_with_work_stealing
\* main.rs:159-173
PlanBegin ==
    /\ pc = "ws_plan"
    /\ remaining_bytes' = U64(total_len - starting_pos)
    /\ num_segments' = NumSegments(remaining_bytes')
    /\ current_pos' = starting_pos
    /\ i' = 0
    /\ pc' = "ws_send"
    /\ UNCHANGED <<rsize, server, histVars, file, mainVars, queue, tx_open, workerVars,
                   singleVars, bytes_downloaded, pb_len, result, gets>>

\* NextSegment without the special case of the last segment.
NextSegmentNoClamp ==
    [start |-> current_pos, end |-> U64(current_pos + SEGMENT_SIZE - 1)]

\* The Segment built by iteration i of the loop, main.rs:175-180
NextSegment ==
    [start |-> current_pos,
     end   |-> IF i = num_segments - 1 THEN U64(total_len - 1)
               ELSE U64(current_pos + SEGMENT_SIZE - 1)]

\* One iteration of the loop, main.rs:174-184
PlanSend ==
    /\ pc = "ws_send"
    /\ i < num_segments
    /\ queue' = Append(queue, NextSegment)
    /\ current_pos' = U64(NextSegment.end + 1)
    /\ i' = i + 1
    /\ UNCHANGED <<pc, rsize, server, histVars, file, mainVars, remaining_bytes, num_segments,
                   tx_open, workerVars, singleVars, bytes_downloaded, pb_len,
                   result, gets>>

\* SenderAfterDrop with tx kept alive to the end of the function.
SenderLeftOpen == TRUE

\* Whether the channel has a sender left after drop(tx): tx was the only
\* one, main.rs:171 and 185.
SenderAfterDrop == FALSE

\* drop(tx), main.rs:185
DropTx ==
    /\ pc = "ws_send"
    /\ i = num_segments
    /\ tx_open' = SenderAfterDrop
    /\ pc' = "ws_prealloc"
    /\ UNCHANGED <<rsize, server, histVars, file, mainVars, remaining_bytes, num_segments,
                   current_pos, i, queue, workerVars, singleVars,
                   bytes_downloaded, pb_len, result, gets>>

\* Pre-allocation, main.rs:190-195: only when the path does not exist.
WsPrealloc ==
    /\ pc = "ws_prealloc"
    /\ \/ /\ ~IsFile(file)
          /\ \/ /\ file' = Fill(total_len, ZeroByte)   \* create, set_len
                /\ pc' = "ws_spawn"
             \/ /\ pc' = "exit_err"                    \* create fails
                /\ UNCHANGED file
       \/ /\ IsFile(file)
          /\ pc' = "ws_spawn"
          /\ UNCHANGED file
    /\ UNCHANGED <<rsize, server, histVars, mainVars, planVars, workerVars, singleVars,
                   bytes_downloaded, pb_len, result, gets>>

\* main.rs:197-268: the counter, the progress bar and the worker tasks.
WsSpawn ==
    /\ pc = "ws_spawn"
    /\ bytes_downloaded' = 0
    /\ pb_len' = remaining_bytes
    /\ wpc' = [w \in Workers |-> "open"]
    /\ pc' = "ws_join"
    /\ UNCHANGED <<rsize, server, histVars, file, mainVars, planVars, segment, fpos, body,
                   chunk, seg_written, qhead, rx_lock, written, singleVars, result,
                   gets>>

\* The locals of a worker task (its file handle, segment, response and
\* chunk) are dropped when the task returns, the segment and the response
\* at the end of each iteration of the loop.
Forget(f, w, v) == [f EXCEPT ![w] = v]

\* A worker task ends: `?` or `return Err` ("failed"), or the break ("done").
Finish(w, how) ==
    /\ wpc' = [wpc EXCEPT ![w] = how]
    /\ segment' = Forget(segment, w, NoSegment)
    /\ fpos' = Forget(fpos, w, 0)
    /\ body' = Forget(body, w, NoBody)
    /\ chunk' = Forget(chunk, w, NoBody)
    /\ seg_written' = Forget(seg_written, w, 0)

\* OpenOptions::new().write(true).open(), main.rs:224-228
W_Open(w) ==
    /\ wpc[w] = "open"
    /\ \/ /\ IsFile(file)
          /\ wpc' = [wpc EXCEPT ![w] = "lock"]
          /\ UNCHANGED <<segment, fpos, body, chunk, seg_written>>
       \/ Finish(w, "failed")
    /\ UNCHANGED <<pc, rsize, server, histVars, file, mainVars, planVars, qhead, rx_lock,
                   written, singleVars, bytes_downloaded, pb_len,
                   result, gets>>

\* rx.lock().await, main.rs:233
W_Lock(w) ==
    /\ wpc[w] = "lock"
    /\ rx_lock = 0
    /\ rx_lock' = w
    /\ wpc' = [wpc EXCEPT ![w] = "recv"]
    /\ UNCHANGED <<pc, rsize, server, histVars, file, mainVars, planVars, segment, fpos, body,
                   chunk, seg_written, qhead, written, singleVars, bytes_downloaded,
                   pb_len, result, gets>>

\* NextIndex that yields the first message again and again.
NextIndexFirst(head, q) == 1

\* NextIndex that takes the Segment sent last.
NextIndexLast(head, q) == Len(q) - head

\* UnboundedReceiver::recv yields the messages in the order they were sent:
\* the place in `queue` of the next one, after `head` were received.
NextIndex(head, q) == head + 1

\* GuardAfterRecv with the guard bound for the whole loop body.
GuardKept(w) == w

\* The holder of the Mutex after the block of main.rs:232-235: rx_guard is
\* dropped at the closing brace, nobody holds it.
GuardAfterRecv(w) == 0

\* rx_guard.recv().await, the drop of the guard and the match,
\* main.rs:234-240.  recv waits while the channel is empty and open.
W_Recv(w) ==
    /\ wpc[w] = "recv"
    /\ rx_lock = w
    /\ \/ /\ qhead < Len(queue)
          /\ segment' = [segment EXCEPT ![w] = queue[NextIndex(qhead, queue)]]
          /\ qhead' = qhead + 1
          /\ popped' = Append(popped, segment'[w])
          /\ wpc' = [wpc EXCEPT ![w] = "send"]
          /\ UNCHANGED <<fpos, body, chunk, seg_written>>
       \/ /\ qhead = Len(queue)
          /\ ~tx_open
          /\ Finish(w, "done")
          /\ UNCHANGED <<qhead, popped>>
    /\ rx_lock' = GuardAfterRecv(w)
    /\ UNCHANGED <<pc, rsize, server, file0, head_status, s_status, fetched, file, mainVars, planVars, written,
                   singleVars, bytes_downloaded, pb_len, result, gets>>

\* What the server may answer to GET with Range: bytes=start-end, as
\* <<status, body>>: an error status, or, by the kind of server, 206 with
\* the range asked for, 200 with the whole resource, or 206 with a body
\* that ends one byte early.
RangedResponses ==
    {<<404, "none">>, <<500, "none">>}
    \cup (CASE server = "ranges"    -> {<<206, "exact">>}
            [] server = "ignores"   -> {<<200, "full">>}
            [] server = "truncates" -> {<<206, "short">>})

RangedBody(kind, seg) ==
    CASE kind = "exact" -> [lo |-> seg.start, hi |-> seg.end]
      [] kind = "short" -> [lo |-> seg.start, hi |-> seg.end - 1]
      [] kind = "full"  -> [lo |-> 0, hi |-> rsize - 1]
      [] OTHER          -> NoBody

\* format!("bytes={}-{}", start, end): the header as its two numbers.
RangeHeader(start, end) == <<start, end>>

\* The ranged GET and the status check, main.rs:242-251
W_Fetch(w) ==
    /\ wpc[w] = "send"
    /\ gets' = gets \cup {RangeHeader(segment[w].start, segment[w].end)}
    /\ fetched' = fetched (+) SetToBag({segment[w]})
    /\ \/ Finish(w, "failed")                     \* send().await?
       \/ \E r \in RangedResponses :
             IF StatusAccepted(r[1])
             THEN /\ body' = [body EXCEPT ![w] = RangedBody(r[2], segment[w])]
                  /\ wpc' = [wpc EXCEPT ![w] = "seek"]
                  /\ UNCHANGED <<segment, fpos, chunk, seg_written>>
             ELSE Finish(w, "failed")
    /\ UNCHANGED <<pc, rsize, server, file0, head_status, s_status, popped, file, mainVars, planVars, qhead,
                   rx_lock, written, singleVars, bytes_downloaded, pb_len,
                   result>>

\* SeekTarget taken relative to the first byte still to download.
SeekTargetRelative(seg) == seg.start - starting_pos

\* SeekTarget that rewinds the handle to the start of the file.
SeekTargetFileStart(seg) == 0

\* file.seek(SeekFrom::Start(segment.start)), main.rs:254
SeekTarget(seg) == seg.start

W_Seek(w) ==
    /\ wpc[w] = "seek"
    /\ \/ /\ fpos' = [fpos EXCEPT ![w] = SeekTarget(segment[w])]
          /\ wpc' = [wpc EXCEPT ![w] = "chunk"]
          /\ UNCHANGED <<segment, body, chunk, seg_written>>
       \/ Finish(w, "failed")
    /\ UNCHANGED <<pc, rsize, server, histVars, file, mainVars, planVars, qhead, rx_lock,
                   written, singleVars, bytes_downloaded, pb_len,
                   result, gets>>

\* response.chunk().await?, main.rs:256: the next 1..MaxChunk bytes of the
\* body, the end of the body (and the end of this iteration of the loop),
\* or a transport error.
W_Chunk(w) ==
    /\ wpc[w] = "chunk"
    /\ \/ /\ BodyLen(body[w]) = 0
          /\ wpc' = [wpc EXCEPT ![w] = "lock"]
          /\ segment' = Forget(segment, w, NoSegment)
          /\ body' = Forget(body, w, NoBody)
          /\ chunk' = Forget(chunk, w, NoBody)
          /\ seg_written' = Forget(seg_written, w, 0)
          /\ UNCHANGED fpos
       \/ \E n \in 1..Min(MaxChunk, BodyLen(body[w])) :
             /\ chunk' = [chunk EXCEPT ![w] =
                            [lo |-> body[w].lo, hi |-> body[w].lo + n - 1]]
             /\ body' = [body EXCEPT ![w].lo = @ + n]
             /\ wpc' = [wpc EXCEPT ![w] = "write"]
             /\ UNCHANGED <<segment, fpos, seg_written>>
       \/ /\ BodyLen(body[w]) > 0
          /\ Finish(w, "failed")
    /\ UNCHANGED <<pc, rsize, server, histVars, file, mainVars, planVars, qhead, rx_lock,
                   written, singleVars, bytes_downloaded, pb_len,
                   result, gets>>

\* file.write_all(&chunk).await?, main.rs:257: at the handle's position.
W_Write(w) ==
    /\ wpc[w] = "write"
    /\ \/ /\ file' = WriteAt(file, fpos[w], SrcBytes(chunk[w].lo, chunk[w].hi))
          /\ fpos' = [fpos EXCEPT ![w] = @ + BodyLen(chunk[w])]
          /\ written' = written + BodyLen(chunk[w])
          /\ seg_written' = [seg_written EXCEPT ![w] = @ + BodyLen(chunk[w])]
          /\ wpc' = [wpc EXCEPT ![w] = "count"]
          /\ UNCHANGED <<segment, body, chunk>>
       \/ /\ Finish(w, "failed")
          /\ UNCHANGED <<file, written>>
    /\ UNCHANGED <<pc, rsize, server, histVars, mainVars, planVars, qhead, rx_lock,
                   singleVars, bytes_downloaded, pb_len, result, gets>>

\* FetchAdd as a store of the chunk length (the earlier count is lost).
FetchAddStore(counter, n) == U64(n)

\* AtomicU64::fetch_add: one indivisible read-modify-write, wrapping.
FetchAdd(counter, n) == U64(counter + n)

\* bytes_downloaded.fetch_add(chunk_len, Relaxed), main.rs:258-260
W_Count(w) ==
    /\ wpc[w] = "count"
    /\ bytes_downloaded' = FetchAdd(bytes_downloaded, BodyLen(chunk[w]))
    /\ wpc' = [wpc EXCEPT ![w] = "chunk"]
    /\ UNCHANGED <<pc, rsize, server, histVars, file, mainVars, planVars, segment, fpos, body,
                   chunk, seg_written, qhead, rx_lock, written, singleVars, pb_len,
                   result, gets>>

\* JoinResult that looks at the first handle only.
JoinResultFirstOnly(states) == IF states[1] = "failed" THEN "err" ELSE "ok"

\* The loop over the join results, main.rs:272-281
JoinResult(states) ==
    IF \E w \in Workers : states[w] = "failed" THEN "err" ELSE "ok"

\* join_all(handles).await and what main() does with the result,
\* main.rs:270-282 and 130, 146-147
WsJoin ==
    /\ pc = "ws_join"
    /\ \A w \in Workers : wpc[w] \in {"done", "failed"}
    /\ result' = JoinResult(wpc)
    /\ pc' = IF result' = "ok" THEN "exit_ok" ELSE "exit_err"
    /\ UNCHANGED <<rsize, server, histVars, file, mainVars, planVars, workerVars, singleVars,
                   bytes_downloaded, pb_len, gets>>

\* --------------------------------------------------- download_single_chunk
\* total_len - starting_pos on u64, main.rs:297: the subtraction overflows
\* when starting_pos > total_len; a build with overflow checks panics, a
\* build without them wraps.
SubOutcomes(a, b) == IF b <= a THEN {a - b} ELSE {U64(a - b), None}

\* The counter and the progress bar, main.rs:292-309
ScProgress ==
    /\ pc = "sc_progress"
    /\ bytes_downloaded' = 0
    /\ IF total_len > 0
       THEN \E d \in SubOutcomes(total_len, starting_pos) :
               IF d = None
               THEN pc' = "exit_panic" /\ UNCHANGED pb_len
               ELSE pc' = "sc_send" /\ pb_len' = d
       ELSE pc' = "sc_send" /\ pb_len' = None
    /\ UNCHANGED <<rsize, server, histVars, file, mainVars, planVars, workerVars, singleVars,
                   result, gets>>

\* What the server may answer to the GET of download_single_chunk, sent
\* with Range: bytes=pos- when pos > 0 and without Range otherwise.
SingleResponses(pos) ==
    {<<404, "none">>, <<500, "none">>}
    \cup (IF pos = 0 \/ server = "ignores" THEN {<<200, "full">>}
          ELSE IF pos < rsize THEN {<<206, "tail">>} ELSE {<<416, "none">>})

SingleBody(kind, pos) ==
    CASE kind = "tail" -> [lo |-> pos, hi |-> rsize - 1]
      [] kind = "full" -> [lo |-> 0, hi |-> rsize - 1]
      [] OTHER         -> NoBody

\* SingleRangeHeader that sends Range on a fresh download too.
SingleRangeHeaderAlways(pos) == <<pos, None>>

\* format!("bytes={}-", starting_pos), or no Range header at all.
SingleRangeHeader(pos) == IF pos > 0 THEN <<pos, None>> ELSE <<None, None>>

\* The GET and the status check, main.rs:311-321
ScSend ==
    /\ pc = "sc_send"
    /\ gets' = gets \cup {SingleRangeHeader(starting_pos)}
    /\ \/ /\ pc' = "exit_err"                      \* send().await?
          /\ s_status' = TransportError
          /\ UNCHANGED s_body
       \/ \E r \in SingleResponses(starting_pos) :
             /\ s_status' = r[1]
             /\ IF StatusAccepted(r[1])
                THEN /\ s_body' = SingleBody(r[2], starting_pos)
                     /\ pc' = "sc_prealloc"
                ELSE /\ pc' = "exit_err"
                     /\ UNCHANGED s_body
    /\ UNCHANGED <<rsize, server, file0, head_status, popped, fetched, file, mainVars, planVars, workerVars, s_chunk,
                   s_append, s_pos, bytes_downloaded, pb_len, result>>

\* Pre-allocation, main.rs:323-327
ScPrealloc ==
    /\ pc = "sc_prealloc"
    /\ IF total_len > 0 /\ starting_pos = 0
       THEN \/ /\ file' = Fill(total_len, ZeroByte)
               /\ pc' = "sc_open"
            \/ /\ pc' = "exit_err"
               /\ UNCHANGED file
       ELSE /\ pc' = "sc_open"
            /\ UNCHANGED file
    /\ UNCHANGED <<rsize, server, histVars, mainVars, planVars, workerVars, singleVars,
                   bytes_downloaded, pb_len, result, gets>>

\* OpenOptions: append when resuming, create + truncate otherwise,
\* main.rs:329-342
ScOpen ==
    /\ pc = "sc_open"
    /\ \/ /\ starting_pos > 0
          /\ IsFile(file)
          /\ s_append' = TRUE
          /\ pc' = "sc_chunk"
          /\ UNCHANGED file
       \/ /\ starting_pos = 0
          /\ s_append' = FALSE
          /\ file' = <<>>
          /\ pc' = "sc_chunk"
       \/ /\ pc' = "exit_err"
          /\ UNCHANGED <<file, s_append>>
    /\ s_pos' = 0
    /\ UNCHANGED <<rsize, server, histVars, mainVars, planVars, workerVars, s_body, s_chunk,
                   bytes_downloaded, pb_len, result, gets>>

\* response.chunk().await?, main.rs:344, and the return at 351-352 with
\* what main() does next, 146-147
ScChunk ==
    /\ pc = "sc_chunk"
    /\ \/ /\ BodyLen(s_body) = 0
          /\ pc' = "exit_ok"
          /\ UNCHANGED <<s_body, s_chunk>>
       \/ \E n \in 1..Min(MaxChunk, BodyLen(s_body)) :
             /\ s_chunk' = [lo |-> s_body.lo, hi |-> s_body.lo + n - 1]
             /\ s_body' = [s_body EXCEPT !.lo = @ + n]
             /\ pc' = "sc_write"
       \/ /\ BodyLen(s_body) > 0
          /\ pc' = "exit_err"
          /\ UNCHANGED <<s_body, s_chunk>>
    /\ UNCHANGED <<rsize, server, histVars, file, mainVars, planVars, workerVars, s_append,
                   s_pos, bytes_downloaded, pb_len, result, gets>>

\* Where a write of the single-stream handle lands: O_APPEND writes at the
\* end of the file, otherwise at the handle's position.
ScWriteOffset == IF s_append THEN Len(file) ELSE s_pos

\* file.write_all(&chunk).await?, main.rs:345
ScWrite ==
    /\ pc = "sc_write"
    /\ \/ /\ file' = WriteAt(file, ScWriteOffset, SrcBytes(s_chunk.lo, s_chunk.hi))
          /\ s_pos' = ScWriteOffset + BodyLen(s_chunk)
          /\ written' = written + BodyLen(s_chunk)
          /\ pc' = "sc_count"
       \/ /\ pc' = "exit_err"
          /\ UNCHANGED <<file, s_pos, written>>
    /\ UNCHANGED <<rsize, server, histVars, mainVars, planVars, wpc, segment, fpos,
                   body, chunk, seg_written, qhead, rx_lock, s_body, s_chunk, s_append,
                   bytes_downloaded, pb_len, result, gets>>

\* bytes_downloaded.fetch_add(chunk_len, Relaxed), main.rs:346-348
ScCount ==
    /\ pc = "sc_count"
    /\ bytes_downloaded' = FetchAdd(bytes_downloaded, BodyLen(s_chunk))
    /\ pc' = "sc_chunk"
    /\ UNCHANGED <<rsize, server, histVars, file, mainVars, planVars, workerVars, singleVars,
                   pb_len, result, gets>>

\* ------------------------------------------------------- specifications
Planner == PlanBegin \/ PlanSend \/ DropTx

Worker(w) ==
    \/ W_Open(w) \/ W_Lock(w) \/ W_Recv(w) \/ W_Fetch(w)
    \/ W_Seek(w) \/ W_Chunk(w) \/ W_Write(w) \/ W_Count(w)

Engine == Planner \/ WsPrealloc \/ WsSpawn \/ WsJoin \/ \E w \in Workers : Worker(w)

Single == ScProgress \/ ScSend \/ ScPrealloc \/ ScOpen \/ ScChunk \/ ScWrite \/ ScCount

Next == Stat \/ Probe \/ Select \/ Engine \/ Single

\* The whole program, against a server that answers ranged requests with
\* 206.
Spec == Init /\ [][Next]_vars

\* The whole program, against any server.
SpecAnyServer == InitAnyServer /\ [][Next]_vars

\* The tokio runtime polls every task that can make progress, and every
\* request sent comes to an end (a response, the end of the body or an
\* error): main() and each worker task take the steps they can take.
Fairness ==
    /\ WF_vars(Stat \/ Probe \/ Select \/ Planner \/ WsPrealloc \/ WsSpawn
                  \/ WsJoin \/ Single)
    /\ \A w \in Workers : WF_vars(Worker(w))

SpecFair == Init /\ [][Next]_vars /\ Fairness

\* The planner alone, called with every (starting_pos, total_len) main() can
\* pass it that fits the word: total_len above the threshold, starting_pos
\* below total_len.
PlanInit ==
    /\ rsize \in (LARGE_FILE_THRESHOLD + 1)..(Pow2(WORD_BITS) - 1)
    /\ server = "ranges"
    /\ \E pos \in 0..(rsize - 1) :
          /\ file \in (IF pos = 0 THEN {NoFile, <<>>} ELSE {Fill(pos, OldByte)})
          /\ starting_pos = pos
    /\ pc = "ws_plan"
    /\ content_length = rsize /\ accepts_ranges = TRUE
    /\ strategy = "segmented" /\ total_len = rsize
    /\ remaining_bytes = 0 /\ num_segments = 0 /\ current_pos = 0 /\ i = 0
    /\ queue = <<>> /\ qhead = 0 /\ tx_open = TRUE /\ rx_lock = 0
    /\ bytes_downloaded = 0 /\ pb_len = None
    /\ wpc = [w \in Workers |-> "unborn"]
    /\ segment = [w \in Workers |-> NoSegment]
    /\ fpos = [w \in Workers |-> 0]
    /\ body = [w \in Workers |-> NoBody]
    /\ chunk = [w \in Workers |-> NoBody]
    /\ result = "none" /\ gets = {}
    /\ s_body = NoBody /\ s_chunk = NoBody /\ s_append = FALSE /\ s_pos = 0
    /\ written = 0
    /\ file0 = file /\ head_status = 200 /\ s_status = None
    /\ popped = <<>> /\ fetched = EmptyBag
    /\ seg_written = [w \in Workers |-> 0]

SpecPlan == PlanInit /\ [][Planner]_vars

\* ------------------------------------------------------------ properties
SegLen(seg) == seg.end - seg.start + 1
Planned == ~tx_open
LastSeg == queue[Len(queue)]

\* C1: once the planner has enqueued its segments and dropped the sender,
\* the segments are sorted by start, each has start <= end, each starts
\* one byte after the previous one ends (so they are pairwise disjoint),
\* the first starts at starting_pos, and every offset of
\* [starting_pos, total_len - 1] lies in exactly one of them, no segment
\* reaching outside that interval.
C1_PlanCoversRemainder ==
    Planned =>
        /\ Len(queue) >= 1
        /\ queue[1].start = starting_pos
        /\ \A k \in 1..Len(queue) :
              /\ queue[k].start <= queue[k].end
              /\ queue[k].start >= starting_pos
              /\ queue[k].end <= total_len - 1
        /\ \A k \in 1..(Len(queue) - 1) :
              queue[k + 1].start = queue[k].end + 1
        /\ \A j, k \in 1..Len(queue) :
              j < k => queue[j].end < queue[k].start
        /\ \A off \in starting_pos..(total_len - 1) :
              Cardinality({k \in 1..Len(queue) :
                  queue[k].start <= off /\ off <= queue[k].end}) = 1

\* C1 witness: a finished plan of a resumed download with several
\* segments, the last of another length than SEGMENT_SIZE.
C1_Witness ==
    /\ Planned
    /\ starting_pos > 0
    /\ Len(queue) >= 3
    /\ SegLen(LastSeg) # SEGMENT_SIZE

\* C2: the finished plan has ceil(remaining / SEGMENT_SIZE) segments, every
\* segment but the last holds SEGMENT_SIZE bytes, and the last ends at
\* total_len - 1 and holds between 1 and SEGMENT_SIZE bytes.
C2_PlanCountAndLengths ==
    Planned =>
        /\ Len(queue) = CeilDiv(total_len - starting_pos, SEGMENT_SIZE)
        /\ \A k \in 1..(Len(queue) - 1) : SegLen(queue[k]) = SEGMENT_SIZE
        /\ Len(queue) >= 1
        /\ LastSeg.end = total_len - 1
        /\ SegLen(LastSeg) >= 1
        /\ SegLen(LastSeg) <= SEGMENT_SIZE

\* C3: the download function main() calls is the segmented engine exactly
\* when the size is known, ranges are accepted, the size is strictly above
\* the threshold and the file on disk is shorter than the size; in every
\* other case it is the single-stream function; and main() is in the
\* function it chose.
InEngine == pc \in {"ws_plan", "ws_send", "ws_prealloc", "ws_spawn", "ws_join"}
InSingle == pc \in {"sc_progress", "sc_send", "sc_prealloc", "sc_open",
                    "sc_chunk", "sc_write", "sc_count"}

C3_StrategySelection ==
    /\ strategy # "none" =>
          /\ strategy \in {"segmented", "single"}
          /\ strategy = "segmented" <=>
                /\ content_length # None
                /\ accepts_ranges
                /\ content_length > LARGE_FILE_THRESHOLD
                /\ starting_pos < content_length
    /\ InEngine => strategy = "segmented"
    /\ InSingle => strategy = "single"

\* C3 witness: a resource of exactly the threshold, with range support and
\* no file on disk, is downloaded by the single-stream function.
C3_Witness ==
    /\ InSingle
    /\ strategy = "single"
    /\ content_length = LARGE_FILE_THRESHOLD
    /\ accepts_ranges
    /\ starting_pos = 0

\* C4: when the size is known and the file on disk is at least that long,
\* no GET is ever sent and the file is left as it was found.
C4_NoFetchWhenComplete ==
    (content_length # None /\ starting_pos >= content_length) =>
        /\ gets = {}
        /\ file = Fill(starting_pos, OldByte)

\* C5: as soon as one worker has ended in error, the engine cannot return
\* Ok: while the joins are pending there is no result, and afterwards the
\* result is the error and main() exits with it.
SomeWorkerFailed == \E w \in Workers : wpc[w] = "failed"

C5_FailurePropagates ==
    SomeWorkerFailed =>
        IF pc = "ws_join" THEN result = "none"
        ELSE result = "err" /\ pc = "exit_err"

\* C5 witness: the engine has returned the error of the one worker that
\* failed, the other worker having ended cleanly after every segment was
\* popped and bytes were written.
C5_Witness ==
    /\ result = "err"
    /\ Cardinality({w \in Workers : wpc[w] = "failed"}) = 1
    /\ \E w \in Workers : wpc[w] = "done"
    /\ qhead = Len(queue)
    /\ written > 0

\* C6: while no worker has written yet, the output file has length
\* total_len from the moment the workers exist.
C6_PresizedBeforeFirstWrite ==
    (pc = "ws_join" /\ written = 0) => FileLen(file) = total_len

\* C7: when the engine returns Ok against a server that sends exactly the
\* ranges asked for, the file has length total_len, every offset from
\* starting_pos on holds the byte of the resource, and the bytes found
\* below starting_pos are untouched.
C7_FinalFileContent ==
    (result = "ok" /\ server = "ranges") =>
        /\ Len(file) = total_len
        /\ \A off \in 0..(total_len - 1) :
              file[off + 1] = IF off < starting_pos THEN OldByte ELSE Src(off)

\* C7 witness: a resumed download of several segments has ended Ok.
C7_Witness ==
    /\ result = "ok"
    /\ server = "ranges"
    /\ starting_pos > 0
    /\ Len(queue) >= 2

\* C8: the bytes a worker has just written for its segment lie within
\* [segment.start, segment.end].
C8_WritesWithinSegment ==
    \A w \in Workers :
        wpc[w] = "count" =>
            /\ fpos[w] - BodyLen(chunk[w]) >= segment[w].start
            /\ fpos[w] - 1 <= segment[w].end

\* C9: the counter never decreases; it equals the sum of the lengths of
\* the chunks written, less the chunk of each task that has returned from
\* write_all and not yet from fetch_add; and when the engine returns Ok
\* against a server that sends exactly the ranges asked for, it equals
\* total_len - starting_pos, the length given to the progress bar.
Pending(w) == IF wpc[w] = "count" THEN BodyLen(chunk[w]) ELSE 0

RECURSIVE PendingUpTo(_)
PendingUpTo(n) == IF n = 0 THEN 0 ELSE Pending(n) + PendingUpTo(n - 1)

NotYetCounted ==
    PendingUpTo(NumWorkers) + (IF pc = "sc_count" THEN BodyLen(s_chunk) ELSE 0)

C9_CounterState ==
    /\ bytes_downloaded + NotYetCounted = written
    /\ (result = "ok" /\ server = "ranges") =>
          /\ bytes_downloaded = total_len - starting_pos
          /\ bytes_downloaded = pb_len

C9_ByteCounter ==
    /\ []C9_CounterState
    /\ [][bytes_downloaded' >= bytes_downloaded]_vars

\* C9 witness: two workers have each written a chunk and are both about
\* to add its length to the counter, which already counts earlier chunks.
C9_Witness ==
    /\ \E v, w \in Workers : v # w /\ wpc[v] = "count" /\ wpc[w] = "count"
    /\ bytes_downloaded > 0

\* C10: the engine returns Ok only when main() has left the join for good,
\* every worker has ended without error, every planned segment has been
\* popped, and every byte of every planned segment has been written.
OffsetWritten(off) == off < FileLen(file) /\ file[off + 1] # ZeroByte

C10_SuccessOnlyWhenAllWritten ==
    result = "ok" =>
        /\ pc = "exit_ok"
        /\ \A w \in Workers : wpc[w] = "done"
        /\ ~tx_open
        /\ qhead = Len(queue)
        /\ \A k \in 1..Len(queue) :
              \A off \in queue[k].start..queue[k].end : OffsetWritten(off)

\* A status that is_success() rejects, or no status at all.
NotSuccessful(status) == status # None /\ ~(status \in 200..299)

\* C11: the GET of download_single_chunk carries Range: bytes=<starting_pos>-
\* exactly when starting_pos > 0; the file is opened in append mode (and
\* left as found) exactly when starting_pos > 0 and created or truncated
\* otherwise; when the response has a status outside 2xx the function
\* returns an error and the file is still as it was found.
C11_SingleStreamRequestAndOpen ==
    /\ (strategy = "single" /\ gets # {}) =>
          gets = {IF starting_pos > 0 THEN <<starting_pos, None>>
                  ELSE <<None, None>>}
    /\ pc \in {"sc_chunk", "sc_write", "sc_count"} =>
          /\ s_append <=> (starting_pos > 0)
          /\ written = 0 => file = (IF starting_pos > 0 THEN file0 ELSE <<>>)
    /\ NotSuccessful(s_status) => (pc = "exit_err" /\ file = file0)

\* C11 witness: a resumed single-stream download whose ranged GET was
\* refused with 416; the run ended in error and the file is as found.
C11_Witness ==
    /\ strategy = "single" /\ starting_pos > 0
    /\ gets = {<<starting_pos, None>>}
    /\ s_status = 416 /\ pc = "exit_err" /\ file = file0

\* C12: when the HEAD request fails in transport or has a status outside
\* 2xx, the run ends in error with no strategy selected, no GET sent, no
\* segment handed out and the destination file as it was found.
C12_HeadFailureStopsRun ==
    NotSuccessful(head_status) =>
        /\ pc = "exit_err"
        /\ strategy = "none"
        /\ gets = {} /\ popped = <<>>
        /\ file = file0

\* C12 witness: the HEAD of a run that found a file from an earlier run
\* was answered 404.
C12_Witness ==
    /\ head_status = 404 /\ pc = "exit_err"
    /\ IsFile(file0) /\ Len(file0) > 0 /\ file = file0

\* The worker has a Segment of its own: from the match of main.rs:237 to
\* the end of the iteration.
Holding(w) == wpc[w] \in {"send", "seek", "chunk", "write", "count"}
Occurrences(seq, x) == Cardinality({n \in 1..Len(seq) : seq[n] = x})
Elements(seq) == {seq[n] : n \in 1..Len(seq)}

\* C13: every planned segment is received at most once, by at most one
\* worker; a GET is sent at most once for a segment, and only for a segment
\* that was received, so a failed segment is never fetched again; when the
\* engine returns Ok every planned segment has been received exactly once.
C13_EachSegmentPoppedOnce ==
    /\ Elements(popped) \subseteq Elements(queue)
    /\ \A k \in 1..Len(queue) :
          /\ Occurrences(popped, queue[k]) <= 1
          /\ CopiesIn(queue[k], fetched) <= Occurrences(popped, queue[k])
    /\ BagToSet(fetched) \subseteq Elements(popped)
    /\ \A w \in Workers : Holding(w) => segment[w] \in Elements(popped)
    /\ \A v, w \in Workers :
          (v # w /\ Holding(v) /\ Holding(w)) => segment[v] # segment[w]
    /\ result = "ok" =>
          \A k \in 1..Len(queue) : Occurrences(popped, queue[k]) = 1

\* C13 witness: a run of three or more segments ended in error although
\* every segment had been received once and requested once: the segment
\* whose download failed was not taken up again.
C13_Witness ==
    /\ result = "err" /\ Len(queue) >= 3
    /\ \A k \in 1..Len(queue) :
          /\ Occurrences(popped, queue[k]) = 1
          /\ CopiesIn(queue[k], fetched) = 1

\* C15: at most one worker is between rx.lock() and the drop of the guard;
\* the Mutex is held by exactly that worker, and by no worker that is
\* sending its request, seeking, awaiting a chunk, writing or counting.
C15_QueueLockExclusive ==
    /\ Cardinality({w \in Workers : wpc[w] = "recv"}) <= 1
    /\ \A w \in Workers : (rx_lock = w) <=> (wpc[w] = "recv")
    /\ \A w \in Workers : Holding(w) => rx_lock # w

\* C15 witness: one worker holds the lock while another is about to write
\* a chunk of the segment it received.
C15_Witness ==
    \E v, w \in Workers :
        /\ wpc[v] = "recv" /\ rx_lock = v
        /\ wpc[w] = "write" /\ segment[w] \in Elements(popped)

\* C17: while a worker downloads a segment its handle stands at
\* segment.start plus the bytes already written for that segment, and every
\* write puts the next bytes of the resource exactly there: the offsets
\* of one segment increase from segment.start without gap or overlap, also
\* for the later segments a worker takes on the same handle.
C17_HandleAtNextOffset ==
    \A w \in Workers :
        wpc[w] \in {"chunk", "write", "count"} =>
            fpos[w] = segment[w].start + seg_written[w]

C17_WriteLandsAtNextOffset ==
    \A w \in Workers :
        (wpc[w] = "write" /\ wpc'[w] = "count") =>
            LET off == segment[w].start + seg_written[w]
                n   == seg_written'[w] - seg_written[w]
            IN  /\ n = BodyLen(chunk[w]) /\ n > 0
                /\ file' = WriteAt(file, off, SrcBytes(chunk[w].lo, chunk[w].hi))

C17_ChunksWrittenInOrder ==
    /\ []C17_HandleAtNextOffset
    /\ [][C17_WriteLandsAtNextOffset]_vars

\* C17 witness: a worker that has downloaded every earlier segment itself
\* (the others have not opened the file yet) is about to write the second
\* chunk of a later segment.
C17_Witness ==
    \E w \in Workers :
        /\ wpc[w] = "write" /\ seg_written[w] > 0
        /\ segment[w].start > starting_pos
        /\ \A v \in Workers \ {w} : wpc[v] = "open"

\* C18: the segments leave the queue in the order they were sent: what has
\* been received so far is an initial part of the plan, in plan order, and
\* the plan is in ascending order of start.
C18_PoppedIsPrefixOfPlan ==
    /\ Len(popped) <= Len(queue)
    /\ \A n \in 1..Len(popped) : popped[n] = queue[n]
    /\ \A k \in 1..(Len(queue) - 1) : queue[k].start < queue[k + 1].start

\* C18 witness: two segments of a longer plan have been received, each is
\* with a worker, and more are waiting.
C18_Witness ==
    /\ Len(popped) = 2 /\ Len(queue) > 2
    /\ \E v, w \in Workers :
          /\ Holding(v) /\ segment[v] = queue[1]
          /\ Holding(w) /\ segment[w] = queue[2]

\* C14: no worker task exists before every segment has been sent and the
\* sender dropped; every worker task that was spawned ends (end of queue
\* or error), and once the workers are spawned the engine returns a result.
C14_PlannedBeforeSpawn ==
    \A w \in Workers :
        wpc[w] # "unborn" => (~tx_open /\ Len(queue) = num_segments)

C14_EngineTerminates ==
    /\ []C14_PlannedBeforeSpawn
    /\ \A w \in Workers :
          (wpc[w] = "open") ~> (wpc[w] \in {"done", "failed"})
    /\ (pc = "ws_join") ~> (result # "none")

\* C14 witness: every worker has seen the end of the queue after the
\* workers together received a plan of three or more segments, and the
\* engine has returned.
C14_Witness ==
    /\ \A w \in Workers : wpc[w] = "done"
    /\ Len(queue) >= 3 /\ Len(popped) = Len(queue)
    /\ result = "ok"

\* C16: once a worker has failed no further segment is received from the
\* queue, and the engine returns an error.
C16_NoPopAfterFailure == SomeWorkerFailed => popped' = popped

C16_StopsAfterFirstFailure ==
    /\ [][C16_NoPopAfterFailure]_vars
    /\ [](result # "none" /\ SomeWorkerFailed => result = "err")

\* C19: total_len - starting_pos is only computed when starting_pos <=
\* total_len, in the engine (remaining_bytes) and in the single-stream
\* function (progress length, computed when total_len > 0): it never
\* overflows, and the run never panics.
C19_SubtractionNeverUnderflows ==
    /\ pc # "exit_panic"
    /\ (strategy = "segmented" /\ pc # "ws_plan") =>
          /\ starting_pos <= total_len
          /\ remaining_bytes = total_len - starting_pos
    /\ (strategy = "single" /\ total_len > 0 /\ pc # "sc_progress") =>
          /\ starting_pos <= total_len
          /\ pb_len = total_len - starting_pos

\* C20: when the single-stream function returns Ok on a resume with
\* 0 < starting_pos < total_len, the file has length total_len, keeps
\* the bytes found at start and holds the resource's bytes from
\* starting_pos on, whether the server answered 206 or 200.
C20_ResumedFileComplete ==
    (/\ pc = "exit_ok" /\ strategy = "single"
     /\ content_length # None
     /\ 0 < starting_pos /\ starting_pos < total_len) =>
        /\ FileLen(file) = total_len
        /\ \A off \in 0..(starting_pos - 1) : file[off + 1] = file0[off + 1]
        /\ \A off \in starting_pos..(total_len - 1) : file[off + 1] = Src(off)

====
